---- MODULE Spec2Model ----
(***************************************************************************)
(* YT-Navigator glue services: batch reranking of document chunks and the   *)
(* parsing of the model's scores,                                           *)
(* merging of Whisper transcript segments, the transcript pipeline, the    *)
(* embeddings migration script, channel-link validation and the setup      *)
(* verification script.  Each subsystem has its own variables and its own  *)
(* specification; a specification leaves the other subsystems' variables   *)
(* at their idle values.                                                    *)
(***************************************************************************)
EXTENDS Integers, Sequences, FiniteSets, TLC

VARIABLES
    \* ---- OpenAIChunksReRanker._rerank
    rr_docs,      \* docs argument
    rr_bs,        \* self.batch_size
    rr_pc,        \* "idle" | "start" | "loop" | "sort" | "done"
    rr_i,         \* index (1-based) of the next batch of doc_chunks
    rr_all,       \* all_ranked_docs; the returned list once rr_pc = "done"
    rr_calls,     \* per batch: chat.completions.create calls made
    rr_failed,    \* batches whose processing failed
    rr_scores,    \* per batch: the scores _parse_scores returned (<<>> if none)
    \* ---- WhisperTranscriptScraper._format_whisper_transcript
    ft_data,      \* transcript_data: [segments, text]
    ft_max,       \* self.max_transcript_segment_duration
    ft_pc,        \* "idle" | "start" | "loop" | "last" | "done"
    ft_k,         \* index (1-based) of the next raw segment
    ft_cur,       \* current_segment: <<>> for None, else <<segment>>
    ft_out,       \* formatted_transcript; the returned list once ft_pc = "done"
    \* ---- TranscriptScraper / WhisperTranscriptScraper.get_video_transcript
    gt_has_id,    \* "videoId" in video_metadata
    gt_max,       \* max_transcript_segment_duration
    gt_pc,        \* "idle" | "call" | "w_start" | "transcribe" | "format" |
                  \* "cleanup" | "except" | "w_ret" | "done" | "raised"
    gt_file,      \* the temporary audio file exists
    gt_data,      \* transcript_data, once transcribed
    gt_exc,       \* an exception is propagating out of the inner try
    gt_result,    \* the list returned
    gt_count,     \* calls made: [download, transcribe, format]
    gt_events,    \* what went wrong: "download", "transcribe", "exception"
    \* ---- migrate_to_openai_embeddings.py
    mg_dry,       \* dry_run
    mg_port_ok,   \* POSTGRES_PORT is unset or an integer
    mg_pc,        \* "idle" | "start" | "backup" | "drop" | "update" |
                  \* "verify" | "close" | "returned" | "raised" | "exited"
    mg_db,        \* the database: [emb, backups, colls]
    mg_db0,       \* the database when main started
    mg_ext,       \* rows other clients inserted since main started
    mg_log,       \* SQL statements main issued, in order: [stmt, ok]
    mg_res,       \* what each step returned: "none" | "True" | "False"
    mg_ran,       \* the steps run, in order
    mg_verify,    \* verify's outcome: "none" | "failed" | "clean" | "warned"
    mg_conn,      \* "none" | "open" | "failed" | "closed" | "close_failed"
    mg_pending,   \* the value main is returning while finally runs
    mg_ret,       \* what main returned: "none" | "True" | "False"
    mg_exit,      \* the process exit status, -1 while running
    \* ---- scraping/utils.py validate_channel_link
    vc_link,      \* channel_link, a sequence of symbols
    vc_pc,        \* "idle" | "start" | "lookup" | "done"
    vc_ident,     \* channel_identifier, once a format matched
    vc_lookups,   \* the identifiers scrapetube.get_channel was called with
    vc_out,       \* [kind: "none" | "return" | "ValueError", value, cause]
    \* ---- scripts/verify_openai_setup.py main
    vf_env,       \* the environment: each required variable's state
    vf_pc,        \* "idle" | "env" | "deps" | "ffmpeg" | "db" | "openai" |
                  \* "summary" | "done"
    vf_results,   \* results: check -> "none" | "pass" | "fail"
    vf_order,     \* the checks performed, in order
    vf_api_calls, \* OpenAI API calls made
    vf_ret,       \* what main returned, -1 while running
    \* ---- OpenAIChunksReRanker._parse_scores
    ps_text,      \* response_text
    ps_n,         \* expected_count
    ps_pc,        \* "idle" | "start" | "loop" | "pad" | "done"
    ps_k,         \* index (1-based) of the next line of lines
    ps_scores,    \* scores
    ps_out        \* the returned list once ps_pc = "done"

rrVars == <<rr_docs, rr_bs, rr_pc, rr_i, rr_all, rr_calls, rr_failed, rr_scores>>

ftVars == <<ft_data, ft_max, ft_pc, ft_k, ft_cur, ft_out>>

gtVars == <<gt_has_id, gt_max, gt_pc, gt_file, gt_data, gt_exc, gt_result,
            gt_count, gt_events>>

mgVars == <<mg_dry, mg_port_ok, mg_pc, mg_db, mg_db0, mg_ext, mg_log, mg_res,
            mg_ran, mg_verify, mg_conn, mg_pending, mg_ret, mg_exit>>

vcVars == <<vc_link, vc_pc, vc_ident, vc_lookups, vc_out>>

vfVars == <<vf_env, vf_pc, vf_results, vf_order, vf_api_calls, vf_ret>>

psVars == <<ps_text, ps_n, ps_pc, ps_k, ps_scores, ps_out>>

vars == <<rrVars, ftVars, gtVars, mgVars, vcVars, vfVars, psVars>>

\* What each subsystem leaves alone.
rrRest == <<ftVars, gtVars, mgVars, vcVars, vfVars, psVars>>
ftRest == <<rrVars, gtVars, mgVars, vcVars, vfVars, psVars>>
gtRest == <<rrVars, ftVars, mgVars, vcVars, vfVars, psVars>>
mgRest == <<rrVars, ftVars, gtVars, vcVars, vfVars, psVars>>
vcRest == <<rrVars, ftVars, gtVars, mgVars, vfVars, psVars>>
vfRest == <<rrVars, ftVars, gtVars, mgVars, vcVars, psVars>>
psRest == <<rrVars, ftVars, gtVars, mgVars, vcVars, vfVars>>

----------------------------------------------------------------------------
(* Generic helpers *)

Min(a, b) == IF a <= b THEN a ELSE b

\* Python dict literal {**a, **b}: keys of b override keys of a.
Merge(a, b) ==
    [k \in (DOMAIN a) \cup (DOMAIN b) |-> IF k \in DOMAIN b THEN b[k] ELSE a[k]]

\* Python slice s[lo:hi] with 0-based lo, hi (hi clipped to len(s)).
Slice(s, lo, hi) == SubSeq(s, lo + 1, Min(hi, Len(s)))

\* All sequences over S of length at most n.
SeqsUpTo(S, n) == UNION {[1..k -> S] : k \in 0..n}

----------------------------------------------------------------------------
(* Reranking: src/app/services/chunks_reranker/openai_reranker.py *)

MaxDocs  == 3      \* longest docs list explored
MaxBatch == 2      \* largest batch_size explored
MaxLines == 2      \* most lines in a model response

\* Scores are counted in halves: 0 is 0.0, 1 is 0.5, ScoreOne is 1.0.
ScoreOne == 2

\* A Document: page_content and the metadata the indexer stored with the
\* chunk (the keys the consumers of the reranked records read).
Doc(i) == [page_content |-> i,
           metadata |-> [video_id |-> "v", start |-> i, end |-> i + 1]]

DocList(n) == [i \in 1..n |-> Doc(i)]

\* float("nan"): a float that no comparison orders.
NaN == ScoreOne + 7

\* a < b on floats.
FloatLt(a, b) == a # NaN /\ b # NaN /\ a < b

\* Python's min(a, b) and max(a, b): the first argument is kept unless the
\* second compares smaller (greater).
PyMin(a, b) == IF FloatLt(b, a) THEN b ELSE a
PyMax(a, b) == IF FloatLt(a, b) THEN b ELSE a

\* message.content of a response: None, or text made of lines.  A line has
\* a ':' or not (colon); what follows the ':' parses as a float or not
\* (num); val is the parsed float in halves, possibly outside 0.0..1.0
\* (ScoreOne + 1 also stands for inf, -1 for -inf) or NaN.
RawVals   == ((0 - 1)..(ScoreOne + 1)) \cup {NaN}
RespLines == {[colon |-> FALSE, num |-> FALSE, val |-> 0],
              [colon |-> TRUE, num |-> FALSE, val |-> 0]}
             \cup {[colon |-> TRUE, num |-> TRUE, val |-> v] : v \in RawVals}
Responses == {[none |-> TRUE, lines |-> <<>>]}
             \cup {[none |-> FALSE, lines |-> l] : l \in SeqsUpTo(RespLines, MaxLines)}

\* A loop body that appends the parsed float as it is.
ParseLineUnclamped(scores, line) ==
    IF ~line.colon THEN scores
    ELSE IF ~line.num THEN Append(scores, 0)
    ELSE Append(scores, line.val)

\* One line of _parse_scores' loop: the scores list after the line.
ParseLine(scores, line) ==
    IF ~line.colon THEN scores
    ELSE IF ~line.num THEN Append(scores, 0)
    ELSE Append(scores, PyMax(0, PyMin(ScoreOne, line.val)))

RECURSIVE ParseLines(_, _)
ParseLines(scores, lines) ==
    IF lines = <<>> THEN scores
    ELSE ParseLines(ParseLine(scores, Head(lines)), Tail(lines))

RECURSIVE PadZeros(_, _)
PadZeros(scores, n) ==
    IF Len(scores) < n THEN PadZeros(Append(scores, 0), n) ELSE scores

ParseScores(response_text, expected_count) ==
    IF response_text.none
    THEN [i \in 1..expected_count |-> 0]        \* .strip() raises; except branch
    ELSE Slice(PadZeros(ParseLines(<<>>, response_text.lines), expected_count),
               0, expected_count)

\* range(0, n, size) as the 0-based batch starts, in order.
NumChunks(n, size) == (n + size - 1) \div size

ChunkDocs(docs, size) ==
    [b \in 1..NumChunks(Len(docs), size) |->
        Slice(docs, (b - 1) * size, (b - 1) * size + size)]

\* {"score": s, **doc.metadata, "text": doc.page_content}
RankedDoc(s, doc) ==
    Merge(Merge([score |-> s], doc.metadata), [text |-> doc.page_content])

\* zip(chunk, scores, strict=False)
ZipScored(chunk, scores) ==
    [j \in 1..Min(Len(chunk), Len(scores)) |-> RankedDoc(scores[j], chunk[j])]

\* An except branch that returns nothing for the failed batch.
ZeroScoredDropped(chunk) == <<>>

ZeroScored(chunk) == [j \in 1..Len(chunk) |-> RankedDoc(0, chunk[j])]

RECURSIVE InsertAsc(_, _)
InsertAsc(sorted, x) ==
    IF sorted = <<>> THEN <<x>>
    ELSE IF Head(sorted).score <= x.score
         THEN <<Head(sorted)>> \o InsertAsc(Tail(sorted), x)
         ELSE <<x>> \o sorted

\* The sort without reverse=True: lowest score first.
RECURSIVE SortAsc(_)
SortAsc(s) ==
    IF s = <<>> THEN <<>>
    ELSE InsertAsc(SortAsc(SubSeq(s, 1, Len(s) - 1)), s[Len(s)])

\* list.sort(key=score, reverse=True): stable, highest score first.
RECURSIVE InsertDesc(_, _)
InsertDesc(sorted, x) ==
    IF sorted = <<>> THEN <<x>>
    ELSE IF Head(sorted).score >= x.score
         THEN <<Head(sorted)>> \o InsertDesc(Tail(sorted), x)
         ELSE <<x>> \o sorted

RECURSIVE SortDesc(_)
SortDesc(s) ==
    IF s = <<>> THEN <<>>
    ELSE InsertDesc(SortDesc(SubSeq(s, 1, Len(s) - 1)), s[Len(s)])

RerankIdle ==
    /\ rr_docs = <<>> /\ rr_bs = 0 /\ rr_pc = "idle" /\ rr_i = 0
    /\ rr_all = <<>> /\ rr_calls = <<>> /\ rr_failed = {} /\ rr_scores = <<>>

RerankStart ==
    /\ rr_docs \in {DocList(n) : n \in 0..MaxDocs}
    /\ rr_bs \in 1..MaxBatch
    /\ rr_pc = "start"
    /\ rr_i = 1
    /\ rr_all = <<>>
    /\ rr_calls = [b \in 1..NumChunks(Len(rr_docs), rr_bs) |-> 0]
    /\ rr_failed = {}
    /\ rr_scores = [b \in 1..NumChunks(Len(rr_docs), rr_bs) |-> <<>>]

\* if not docs: return []
RerankEmpty ==
    /\ rr_pc = "start" /\ rr_docs = <<>>
    /\ rr_pc' = "done"
    /\ UNCHANGED <<rr_docs, rr_bs, rr_i, rr_all, rr_calls, rr_failed, rr_scores, rrRest>>

RerankBegin ==
    /\ rr_pc = "start" /\ rr_docs # <<>>
    /\ rr_pc' = "loop"
    /\ UNCHANGED <<rr_docs, rr_bs, rr_i, rr_all, rr_calls, rr_failed, rr_scores, rrRest>>

NextBatchPc == IF rr_i + 1 > NumChunks(Len(rr_docs), rr_bs) THEN "sort" ELSE "loop"

\* _process_chunk returns the scored batch; _rerank extends all_ranked_docs.
ProcessChunkOk ==
    /\ rr_pc = "loop"
    /\ \E resp \in Responses :
         LET chunk  == ChunkDocs(rr_docs, rr_bs)[rr_i]
             scores == ParseScores(resp, Len(chunk))
         IN  /\ rr_all' = rr_all \o ZipScored(chunk, scores)
             /\ rr_scores' = [rr_scores EXCEPT ![rr_i] = scores]
    /\ rr_calls' = [rr_calls EXCEPT ![rr_i] = @ + 1]
    /\ rr_pc' = NextBatchPc
    /\ rr_i' = rr_i + 1
    /\ UNCHANGED <<rr_docs, rr_bs, rr_failed, rrRest>>

\* The API call (or reading the response) raises inside _process_chunk:
\* its except branch returns the batch with zero scores.
ProcessChunkFail ==
    /\ rr_pc = "loop"
    /\ rr_all' = rr_all \o ZeroScored(ChunkDocs(rr_docs, rr_bs)[rr_i])
    /\ rr_calls' = [rr_calls EXCEPT ![rr_i] = @ + 1]
    /\ rr_failed' = rr_failed \cup {rr_i}
    /\ rr_pc' = NextBatchPc
    /\ rr_i' = rr_i + 1
    /\ UNCHANGED <<rr_docs, rr_bs, rr_scores, rrRest>>

\* _process_chunk itself raises (before or after the API call): _rerank's
\* except branch extends all_ranked_docs with the zero-scored batch.
ProcessChunkRaise ==
    /\ rr_pc = "loop"
    /\ \E called \in 0..1 :
         rr_calls' = [rr_calls EXCEPT ![rr_i] = @ + called]
    /\ rr_all' = rr_all \o ZeroScored(ChunkDocs(rr_docs, rr_bs)[rr_i])
    /\ rr_failed' = rr_failed \cup {rr_i}
    /\ rr_pc' = NextBatchPc
    /\ rr_i' = rr_i + 1
    /\ UNCHANGED <<rr_docs, rr_bs, rr_scores, rrRest>>

\* all_ranked_docs.sort(...); return all_ranked_docs
RerankSort ==
    /\ rr_pc = "sort"
    /\ rr_all' = SortDesc(rr_all)
    /\ rr_pc' = "done"
    /\ UNCHANGED <<rr_docs, rr_bs, rr_i, rr_calls, rr_failed, rr_scores, rrRest>>

RerankNext ==
    \/ RerankEmpty
    \/ RerankBegin
    \/ ProcessChunkOk
    \/ ProcessChunkFail
    \/ ProcessChunkRaise
    \/ RerankSort


\* C1: the list _rerank returns is ordered by score from highest to lowest:
\* each record's score is >= the score of the record after it, whatever the
\* number of batches and whichever of them failed.
C1_SortedByScoreDesc ==
    rr_pc = "done" =>
        \A k \in 1..(Len(rr_all) - 1) : rr_all[k].score >= rr_all[k + 1].score

\* A finished run over several batches, one failed and one scored, where the
\* best record is a document that came later in docs than the worst one.
C1_Witness ==
    /\ rr_pc = "done"
    /\ Len(rr_calls) >= 2
    /\ rr_failed # {} /\ rr_failed # DOMAIN rr_calls
    /\ rr_all[1].score > rr_all[Len(rr_all)].score
    /\ rr_all[1].start > rr_all[Len(rr_all)].start

\* C2: a failed batch does not stop _rerank: the run ends by returning, every
\* document of a failed batch is in the result exactly once with score 0.0,
\* every document of another batch is in the result exactly once with the
\* score parsed from its own batch's response, and no batch makes more than
\* one API call.
C2_FailedBatchIsolated ==
    /\ \A b \in DOMAIN rr_calls : rr_calls[b] <= 1
    /\ (rr_pc # "idle" /\ ~ENABLED RerankNext) => rr_pc = "done"
    /\ rr_pc = "done" =>
        LET chunks == ChunkDocs(rr_docs, rr_bs)
        IN  /\ Len(rr_all) = Len(rr_docs)
            /\ \A b \in DOMAIN chunks : \A j \in 1..Len(chunks[b]) :
                  LET recs == {k \in 1..Len(rr_all) :
                                 rr_all[k].text = chunks[b][j].page_content}
                  IN  /\ Cardinality(recs) = 1
                      /\ \A k \in recs :
                            rr_all[k].score =
                                IF b \in rr_failed THEN 0 ELSE rr_scores[b][j]

\* A finished run in which one batch failed and another batch kept a
\* non-zero parsed score.
C2_Witness ==
    /\ rr_pc = "done"
    /\ rr_failed # {}
    /\ \E b \in DOMAIN rr_scores : b \notin rr_failed /\ rr_scores[b][1] > 0
    /\ \E k \in 1..Len(rr_all) : rr_all[k].score > 0

----------------------------------------------------------------------------
(* Score parsing: OpenAIChunksReRanker._parse_scores, statement by statement *)

MaxExpected == 3   \* largest expected_count explored

ParseIdle ==
    /\ ps_text = [none |-> TRUE, lines |-> <<>>] /\ ps_n = 0 /\ ps_pc = "idle"
    /\ ps_k = 0 /\ ps_scores = <<>> /\ ps_out = <<>>

ParseStart ==
    /\ ps_text \in Responses
    /\ ps_n \in 0..MaxExpected
    /\ ps_pc = "start"
    /\ ps_k = 1
    /\ ps_scores = <<>>
    /\ ps_out = <<>>

\* response_text is None: .strip() raises, the outer except returns
\* [0.0] * expected_count.
ParseExcept ==
    /\ ps_pc = "start" /\ ps_text.none
    /\ ps_out' = [i \in 1..ps_n |-> 0]
    /\ ps_pc' = "done"
    /\ UNCHANGED <<ps_text, ps_n, ps_k, ps_scores, psRest>>

\* lines = response_text.strip().split('\n')
ParseSplit ==
    /\ ps_pc = "start" /\ ~ps_text.none
    /\ ps_pc' = "loop"
    /\ UNCHANGED <<ps_text, ps_n, ps_k, ps_scores, ps_out, psRest>>

\* one iteration of: for line in lines
ParseLoop ==
    /\ ps_pc = "loop" /\ ps_k <= Len(ps_text.lines)
    /\ ps_scores' = ParseLine(ps_scores, ps_text.lines[ps_k])
    /\ ps_k' = ps_k + 1
    /\ UNCHANGED <<ps_text, ps_n, ps_pc, ps_out, psRest>>

\* while len(scores) < expected_count: scores.append(0.0)
ParsePad ==
    /\ ps_pc = "loop" /\ ps_k > Len(ps_text.lines)
    /\ ps_scores' = PadZeros(ps_scores, ps_n)
    /\ ps_pc' = "pad"
    /\ UNCHANGED <<ps_text, ps_n, ps_k, ps_out, psRest>>

\* return scores[:expected_count]
ParseReturn ==
    /\ ps_pc = "pad"
    /\ ps_out' = Slice(ps_scores, 0, ps_n)
    /\ ps_pc' = "done"
    /\ UNCHANGED <<ps_text, ps_n, ps_k, ps_scores, psRest>>

ParseNext ==
    \/ ParseExcept
    \/ ParseSplit
    \/ ParseLoop
    \/ ParsePad
    \/ ParseReturn

\* The lines that carry a score, in the order of the text.
ScoreLines(lines) == SelectSeq(lines, LAMBDA l : l.colon)

\* The scores a score line may stand for: 0.0 when what follows the ':' is
\* not a float, the value brought into 0.0..1.0 when it is (NaN has no
\* nearest bound: anything in the range).
ClampedValues(line) ==
    IF ~line.num THEN {0}
    ELSE IF line.val = NaN THEN 0..ScoreOne
    ELSE IF line.val < 0 THEN {0}
    ELSE IF line.val > ScoreOne THEN {ScoreOne}
    ELSE {line.val}

\* C11: _parse_scores returns for every response text, never raising, a list
\* of exactly expected_count scores, each within 0.0..1.0: the k-th score is
\* the clamped value of the k-th score line (0.0 when it does not parse),
\* positions past the last score line hold 0.0, score lines beyond
\* expected_count are discarded, and a text that cannot be split (None)
\* gives all 0.0.  It is the list the reranker's batches receive.
C11_ParseScoresExactCountClamped ==
    /\ ps_pc \in {"start", "loop", "pad"} => ENABLED ParseNext
    /\ ps_pc = "done" =>
         /\ Len(ps_out) = ps_n
         /\ \A i \in 1..Len(ps_out) : ps_out[i] \in 0..ScoreOne
         /\ ps_text.none => \A i \in 1..Len(ps_out) : ps_out[i] = 0
         /\ ~ps_text.none =>
              LET given == ScoreLines(ps_text.lines) IN
              \A i \in 1..ps_n :
                  IF i <= Len(given)
                  THEN ps_out[i] \in ClampedValues(given[i])
                  ELSE ps_out[i] = 0
         /\ ps_out = ParseScores(ps_text, ps_n)

\* A text with more score lines than expected, the first above 1.0: it is
\* clamped to 1.0 and the extra line is discarded.
C11_Witness ==
    /\ ps_pc = "done" /\ ~ps_text.none
    /\ ps_n = 1 /\ Len(ScoreLines(ps_text.lines)) = 2
    /\ ps_text.lines[1].num /\ ps_text.lines[1].val = ScoreOne + 1
    /\ ps_out = <<ScoreOne>>

\* A text with fewer score lines than expected, one of them unparsable and
\* one NaN: zeros fill the end.
C11_WitnessPadded ==
    /\ ps_pc = "done" /\ ~ps_text.none
    /\ ps_n = MaxExpected /\ Len(ScoreLines(ps_text.lines)) = 2
    /\ ~ps_text.lines[1].num
    /\ ps_text.lines[2].num /\ ps_text.lines[2].val = NaN
    /\ ps_out[MaxExpected] = 0 /\ ps_out[2] = ScoreOne

\* response_text None: all zeros.
C11_WitnessNone ==
    /\ ps_pc = "done" /\ ps_text.none /\ ps_n = MaxExpected
    /\ ps_out = [i \in 1..MaxExpected |-> 0]


----------------------------------------------------------------------------
(* Transcript formatting: src/app/services/scraping/whisper_transcript.py *)

MaxSegs == 3       \* longest raw segment list explored

VideoId == "vid"

\* Text is a sequence of characters; " " stands for any whitespace.
RECURSIVE LStrip(_)
LStrip(t) == IF t # <<>> /\ Head(t) = " " THEN LStrip(Tail(t)) ELSE t

RECURSIVE RStrip(_)
RStrip(t) ==
    IF t # <<>> /\ t[Len(t)] = " " THEN RStrip(SubSeq(t, 1, Len(t) - 1)) ELSE t

\* str.strip()
Strip(t) == RStrip(LStrip(t))

\* Raw segments as the transcription API returns them.
RawTexts   == {<<"a">>, <<" ", "b", " ">>}
SegStarts  == {0, 1}
SegLengths == {0, 1, 2}
RawSegments ==
    {[text |-> t, start |-> s, end |-> s + d] :
        t \in RawTexts, s \in SegStarts, d \in SegLengths}
FullTexts  == {<<>>, <<" ", "a", " ", "b">>}
MaxDurations == {1, 2}

\* The dict built at lines 209-215 and 227-233 (the timestamp string, made
\* by app.helpers.convert_seconds_to_timestamp from start_time, is left out).
NewSegment(segment) ==
    [video_id   |-> VideoId,
     start_time |-> segment.start,
     text       |-> Strip(segment.text),
     duration   |-> segment.end - segment.start]

\* The loop body with the flush of a full window forgotten.
MergeSegmentNoFlush(cur, out, segment, maxdur) ==
    IF cur = <<>>
    THEN [cur |-> <<NewSegment(segment)>>, out |-> out]
    ELSE LET total_duration == cur[1].duration + (segment.end - segment.start)
         IN  IF total_duration <= maxdur
             THEN [cur |-> <<[cur[1] EXCEPT
                                !.text = @ \o <<" ">> \o Strip(segment.text),
                                !.duration = total_duration]>>,
                   out |-> out]
             ELSE [cur |-> <<NewSegment(segment)>>, out |-> out]

\* One iteration of the loop at lines 201-233: the new (current_segment,
\* formatted_transcript).
MergeSegment(cur, out, segment, maxdur) ==
    IF cur = <<>>
    THEN [cur |-> <<NewSegment(segment)>>, out |-> out]
    ELSE LET total_duration == cur[1].duration + (segment.end - segment.start)
         IN  IF total_duration <= maxdur
             THEN [cur |-> <<[cur[1] EXCEPT
                                !.text = @ \o <<" ">> \o Strip(segment.text),
                                !.duration = total_duration]>>,
                   out |-> out]
             ELSE [cur |-> <<NewSegment(segment)>>, out |-> Append(out, cur[1])]

\* The fallback at lines 184-196: no segments.
FallbackTranscript(text) ==
    IF text # <<>>
    THEN <<[video_id |-> VideoId, start_time |-> 0, text |-> Strip(text),
            duration |-> 0]>>
    ELSE <<>>

RECURSIVE MergeAll(_, _, _, _)
MergeAll(cur, out, segments, maxdur) ==
    IF segments = <<>> THEN out \o cur
    ELSE LET st == MergeSegment(cur, out, Head(segments), maxdur)
         IN  MergeAll(st.cur, st.out, Tail(segments), maxdur)

\* _format_whisper_transcript as a function of its input.
FormatWhisperTranscript(data, maxdur) ==
    IF data.segments = <<>> THEN FallbackTranscript(data.text)
    ELSE MergeAll(<<>>, <<>>, data.segments, maxdur)

FormatIdle ==
    /\ ft_data = [segments |-> <<>>, text |-> <<>>] /\ ft_max = 0
    /\ ft_pc = "idle" /\ ft_k = 0 /\ ft_cur = <<>> /\ ft_out = <<>>

\* transcript.model_dump(): segments with their texts, or only a full text.
TranscriptData(n) ==
    {[segments |-> <<>>, text |-> t] : t \in FullTexts}
    \cup {[segments |-> sg, text |-> <<"a">>] :
            sg \in SeqsUpTo(RawSegments, n) \ {<<>>}}

FormatStart ==
    /\ ft_data \in TranscriptData(MaxSegs)
    /\ ft_max \in MaxDurations
    /\ ft_pc = "start" /\ ft_k = 1 /\ ft_cur = <<>> /\ ft_out = <<>>

\* if not segments: ... return formatted_transcript
FormatFallback ==
    /\ ft_pc = "start" /\ ft_data.segments = <<>>
    /\ ft_out' = FallbackTranscript(ft_data.text)
    /\ ft_pc' = "done"
    /\ UNCHANGED <<ft_data, ft_max, ft_k, ft_cur, ftRest>>

FormatBegin ==
    /\ ft_pc = "start" /\ ft_data.segments # <<>>
    /\ ft_pc' = "loop"
    /\ UNCHANGED <<ft_data, ft_max, ft_k, ft_cur, ft_out, ftRest>>

\* for segment in segments: one iteration
FormatSegment ==
    /\ ft_pc = "loop"
    /\ LET st == MergeSegment(ft_cur, ft_out, ft_data.segments[ft_k], ft_max)
       IN  ft_cur' = st.cur /\ ft_out' = st.out
    /\ ft_k' = ft_k + 1
    /\ ft_pc' = IF ft_k + 1 > Len(ft_data.segments) THEN "last" ELSE "loop"
    /\ UNCHANGED <<ft_data, ft_max, ftRest>>

\* if current_segment: append; return formatted_transcript
FormatFinish ==
    /\ ft_pc = "last"
    /\ ft_out' = ft_out \o ft_cur
    /\ ft_pc' = "done"
    /\ UNCHANGED <<ft_data, ft_max, ft_k, ft_cur, ftRest>>

FormatNext ==
    \/ FormatFallback
    \/ FormatBegin
    \/ FormatSegment
    \/ FormatFinish


\* C3: every segment _format_whisper_transcript returns has a duration of at
\* most max_transcript_segment_duration.
C3_DurationAtMostMax ==
    ft_pc = "done" =>
        \A g \in 1..Len(ft_out) : ft_out[g].duration <= ft_max

RECURSIVE SumSeq(_)
SumSeq(q) == IF q = <<>> THEN 0 ELSE Head(q) + SumSeq(Tail(q))

\* The ways to cut n items into consecutive non-empty groups: the group sizes.
Compositions(n) ==
    {q \in UNION {[1..k -> 1..n] : k \in 1..n} : SumSeq(q) = n}

\* The stripped texts of raw segments lo..hi joined by single spaces.
RECURSIVE JoinStripped(_, _, _)
JoinStripped(segments, lo, hi) ==
    IF lo = hi THEN Strip(segments[lo].text)
    ELSE JoinStripped(segments, lo, hi - 1) \o <<" ">> \o Strip(segments[hi].text)

\* C4: for a non-empty list of raw segments the output is one segment per
\* group of a partition of the list into consecutive non-empty groups, in
\* order: its text is the group's stripped texts joined by single spaces in
\* input order, and its start_time is the start of the group's first segment.
C4_MergeKeepsOrderAndText ==
    (ft_pc = "done" /\ ft_data.segments # <<>>) =>
        \E sizes \in Compositions(Len(ft_data.segments)) :
            /\ Len(ft_out) = Len(sizes)
            /\ \A g \in 1..Len(sizes) :
                 LET lo == SumSeq(SubSeq(sizes, 1, g - 1)) + 1
                     hi == lo + sizes[g] - 1
                 IN  /\ ft_out[g].text = JoinStripped(ft_data.segments, lo, hi)
                     /\ ft_out[g].start_time = ft_data.segments[lo].start

\* Three raw segments, the first two merged into one window and the third
\* starting a new one, with whitespace stripped from a merged text.
C4_Witness ==
    /\ ft_pc = "done"
    /\ Len(ft_data.segments) = 3
    /\ Len(ft_out) = 2
    /\ ft_out[1].text = <<"a", " ", "b">>
    /\ ft_out[2].start_time = ft_data.segments[3].start

----------------------------------------------------------------------------
(* Transcript pipeline: src/app/services/scraping/transcript.py and        *)
(* whisper_transcript.py, get_video_transcript                             *)

MaxCallSegs == 2   \* longest raw segment list a transcription returns

NoData == [segments |-> <<>>, text |-> <<>>]

TranscriptIdle ==
    /\ gt_has_id = FALSE /\ gt_max = 0 /\ gt_pc = "idle" /\ gt_file = FALSE
    /\ gt_data = NoData /\ gt_exc = FALSE /\ gt_result = <<>>
    /\ gt_count = [download |-> 0, transcribe |-> 0, format |-> 0]
    /\ gt_events = {}

TranscriptStart ==
    /\ gt_has_id \in BOOLEAN
    /\ gt_max \in MaxDurations
    /\ gt_pc = "call" /\ gt_file = FALSE
    /\ gt_data = NoData /\ gt_exc = FALSE /\ gt_result = <<>>
    /\ gt_count = [download |-> 0, transcribe |-> 0, format |-> 0]
    /\ gt_events = {}

\* TranscriptScraper.get_video_transcript: video_id = video_metadata["videoId"]
TsCall ==
    /\ gt_pc = "call" /\ gt_has_id
    /\ gt_pc' = "w_start"
    /\ UNCHANGED <<gt_has_id, gt_max, gt_file, gt_data, gt_exc, gt_result,
                   gt_count, gt_events, gtRest>>

\* The subscript raises KeyError before the try.
TsKeyError ==
    /\ gt_pc = "call" /\ ~gt_has_id
    /\ gt_pc' = "raised"
    /\ UNCHANGED <<gt_has_id, gt_max, gt_file, gt_data, gt_exc, gt_result,
                   gt_count, gt_events, gtRest>>

\* An exception inside TranscriptScraper's try: its except returns [].
TsExcept ==
    /\ gt_pc = "w_start"
    /\ gt_result' = <<>>
    /\ gt_events' = gt_events \cup {"exception"}
    /\ gt_pc' = "done"
    /\ UNCHANGED <<gt_has_id, gt_max, gt_file, gt_data, gt_exc, gt_count, gtRest>>

\* _download_audio: the path of the downloaded file, or None (yt-dlp raised
\* or the file is not there); None makes get_video_transcript return [].
WhisperDownload ==
    /\ gt_pc = "w_start"
    /\ gt_count' = [gt_count EXCEPT !.download = @ + 1]
    /\ \E ok \in BOOLEAN :
         IF ok
         THEN /\ gt_file' = TRUE /\ gt_pc' = "transcribe"
              /\ UNCHANGED <<gt_result, gt_events>>
         ELSE /\ gt_file' = FALSE /\ gt_pc' = "w_ret"
              /\ gt_result' = <<>>
              /\ gt_events' = gt_events \cup {"download"}
    /\ UNCHANGED <<gt_has_id, gt_max, gt_data, gt_exc, gtRest>>

\* _transcribe_with_whisper: the transcript, or None (file over 25 MB or the
\* API raised); None makes get_video_transcript return [] through finally.
WhisperTranscribe ==
    /\ gt_pc = "transcribe"
    /\ gt_count' = [gt_count EXCEPT !.transcribe = @ + 1]
    /\ \/ \E data \in TranscriptData(MaxCallSegs) :
            /\ gt_data' = data /\ gt_pc' = "format"
            /\ UNCHANGED <<gt_result, gt_events>>
       \/ /\ gt_result' = <<>> /\ gt_pc' = "cleanup"
          /\ gt_events' = gt_events \cup {"transcribe"}
          /\ UNCHANGED gt_data
    /\ UNCHANGED <<gt_has_id, gt_max, gt_file, gt_exc, gtRest>>

\* formatted_transcript = self._format_whisper_transcript(...); return it
WhisperFormat ==
    /\ gt_pc = "format"
    /\ gt_count' = [gt_count EXCEPT !.format = @ + 1]
    /\ gt_result' = FormatWhisperTranscript(gt_data, gt_max)
    /\ gt_pc' = "cleanup"
    /\ UNCHANGED <<gt_has_id, gt_max, gt_file, gt_data, gt_exc, gt_events, gtRest>>

\* An exception inside the try of WhisperTranscriptScraper (outside the
\* helpers, which catch their own): from the inner try it passes finally.
WhisperRaise ==
    /\ gt_pc \in {"w_start", "transcribe", "format"}
    /\ gt_exc' = TRUE
    /\ gt_pc' = IF gt_pc = "w_start" THEN "except" ELSE "cleanup"
    /\ UNCHANGED <<gt_has_id, gt_max, gt_file, gt_data, gt_result, gt_count,
                   gt_events, gtRest>>

\* finally: self._cleanup_audio(audio_path); a failed removal is only logged.
WhisperCleanup ==
    /\ gt_pc = "cleanup"
    /\ \E removed \in BOOLEAN : gt_file' = (gt_file /\ ~removed)
    /\ gt_pc' = IF gt_exc THEN "except" ELSE "w_ret"
    /\ UNCHANGED <<gt_has_id, gt_max, gt_data, gt_exc, gt_result, gt_count,
                   gt_events, gtRest>>

\* A handler that lets the exception through.
WhisperExceptReraise ==
    /\ gt_pc = "except"
    /\ gt_pc' = "raised"
    /\ UNCHANGED <<gt_has_id, gt_max, gt_file, gt_data, gt_exc, gt_result,
                   gt_count, gt_events, gtRest>>

\* except Exception: ... return []
WhisperExcept ==
    /\ gt_pc = "except"
    /\ gt_result' = <<>>
    /\ gt_exc' = FALSE
    /\ gt_events' = gt_events \cup {"exception"}
    /\ gt_pc' = "w_ret"
    /\ UNCHANGED <<gt_has_id, gt_max, gt_file, gt_data, gt_count, gtRest>>

\* return self.whisper_scraper.get_video_transcript(video_metadata)
TsReturn ==
    /\ gt_pc = "w_ret"
    /\ gt_pc' = "done"
    /\ UNCHANGED <<gt_has_id, gt_max, gt_file, gt_data, gt_exc, gt_result,
                   gt_count, gt_events, gtRest>>

TranscriptNext ==
    \/ TsCall
    \/ TsKeyError
    \/ TsExcept
    \/ WhisperDownload
    \/ WhisperTranscribe
    \/ WhisperFormat
    \/ WhisperRaise
    \/ WhisperCleanup
    \/ WhisperExcept
    \/ TsReturn

\* C5: with "videoId" present get_video_transcript never raises and always
\* returns: the empty list when the download failed, the transcription
\* failed or an exception occurred, and otherwise the formatted segments of
\* the transcript; download, transcription and formatting run at most once.
C5_NeverRaisesEmptyOnFailure ==
    gt_has_id =>
        /\ gt_pc # "raised"
        /\ (gt_pc # "done") => ENABLED TranscriptNext
        /\ gt_count.download <= 1 /\ gt_count.transcribe <= 1
        /\ gt_count.format <= 1
        /\ gt_pc = "done" =>
             gt_result = IF gt_events # {} THEN <<>>
                         ELSE FormatWhisperTranscript(gt_data, gt_max)

\* A finished call that transcribed and returned two formatted segments.
C5_Witness ==
    /\ gt_pc = "done" /\ gt_has_id /\ gt_events = {}
    /\ gt_count = [download |-> 1, transcribe |-> 1, format |-> 1]
    /\ Len(gt_result) = 2

\* A finished call whose transcription failed after a successful download.
C5_WitnessFailure ==
    /\ gt_pc = "done" /\ gt_events = {"transcribe"} /\ gt_result = <<>>

----------------------------------------------------------------------------
(* Migration: src/scripts/migrate_to_openai_embeddings.py *)

MaxRows  == 2      \* most rows in langchain_pg_embedding
MaxColls == 2      \* most rows in langchain_pg_collection

\* cmetadata of a collection: NULL, or embedding_dimensions old or new.
CollStates == {"null", "old"}

NoResults == [backup |-> "none", drop |-> "none", update |-> "none"]

MigrateIdle ==
    /\ mg_dry = FALSE /\ mg_port_ok = TRUE /\ mg_pc = "idle"
    /\ mg_db = [emb |-> 0, backups |-> <<>>, colls |-> <<>>]
    /\ mg_db0 = mg_db /\ mg_ext = 0 /\ mg_log = <<>> /\ mg_res = NoResults
    /\ mg_ran = <<>> /\ mg_verify = "none" /\ mg_conn = "none" /\ mg_pending = "none"
    /\ mg_ret = "none" /\ mg_exit = 0 - 1

MigrateStart ==
    /\ mg_dry \in BOOLEAN
    /\ mg_port_ok \in BOOLEAN
    /\ mg_pc = "start"
    /\ mg_db \in [emb : 0..MaxRows,
                  backups : {<<>>, <<0>>},
                  colls : SeqsUpTo(CollStates, MaxColls)]
    /\ mg_db0 = mg_db /\ mg_ext = 0 /\ mg_log = <<>> /\ mg_res = NoResults
    /\ mg_ran = <<>> /\ mg_verify = "none" /\ mg_conn = "none" /\ mg_pending = "none"
    /\ mg_ret = "none" /\ mg_exit = 0 - 1

Stmt(name, ok) == [stmt |-> name, ok |-> ok]

Bool(b) == IF b THEN "True" ELSE "False"

\* The application (or anyone else) inserts an embedding while main runs.
OtherClientInsert ==
    /\ mg_pc \in {"start", "backup", "drop", "update", "verify", "close"}
    /\ mg_db.emb < MaxRows
    /\ mg_db' = [mg_db EXCEPT !.emb = @ + 1]
    /\ mg_ext' = mg_ext + 1
    /\ UNCHANGED <<mg_dry, mg_port_ok, mg_pc, mg_db0, mg_log, mg_res, mg_ran,
                   mg_conn, mg_pending, mg_ret, mg_exit, mg_verify, mgRest>>

\* int(os.getenv("POSTGRES_PORT", 5432)) raises ValueError before the try.
MigratePortError ==
    /\ mg_pc = "start" /\ ~mg_port_ok
    /\ mg_pc' = "raised"
    /\ UNCHANGED <<mg_dry, mg_port_ok, mg_db, mg_db0, mg_ext, mg_log, mg_res,
                   mg_ran, mg_conn, mg_pending, mg_ret, mg_exit, mg_verify, mgRest>>

\* conn = await asyncpg.connect(**db_config); a failure returns False.
MigrateConnect ==
    /\ mg_pc = "start" /\ mg_port_ok
    /\ \E ok \in BOOLEAN :
         IF ok
         THEN mg_conn' = "open" /\ mg_pc' = "backup" /\ mg_ret' = mg_ret
         ELSE mg_conn' = "failed" /\ mg_pc' = "returned" /\ mg_ret' = "False"
    /\ UNCHANGED <<mg_dry, mg_port_ok, mg_db, mg_db0, mg_ext, mg_log, mg_res,
                   mg_ran, mg_pending, mg_exit, mg_verify, mgRest>>

\* What a step can do: nothing in a dry run, else fail at its first or its
\* second database call, or succeed.
BackupOutcomes(dry) ==
    IF dry THEN {"dry"} ELSE {"create_fails", "count_fails", "ok"}

\* drop_old_embeddings without its dry_run check.
DropOutcomesNoDryCheck(dry) == {"count_fails", "delete_fails", "ok"}

DropOutcomes(dry) ==
    IF dry THEN {"dry"} ELSE {"count_fails", "delete_fails", "ok"}

UpdateOutcomes(dry) == IF dry THEN {"dry"} ELSE {"update_fails", "ok"}

\* A step that returns True although its statement raised.
StepResultAlwaysTrue(outcome) == "True"

\* True from the dry-run return or the end of the try, False from except.
StepResult(outcome) == Bool(outcome \in {"dry", "ok"})

\* Step 1: backup_embeddings_table.
MigrateBackup ==
    /\ mg_pc = "backup"
    /\ \E o \in BackupOutcomes(mg_dry) :
         /\ mg_log' = mg_log \o
               CASE o = "dry"          -> <<>>
                 [] o = "create_fails" -> <<Stmt("CREATE", FALSE)>>
                 [] o = "count_fails"  -> <<Stmt("CREATE", TRUE), Stmt("COUNT", FALSE)>>
                 [] o = "ok"           -> <<Stmt("CREATE", TRUE), Stmt("COUNT", TRUE)>>
         /\ mg_db' = IF o \in {"count_fails", "ok"}
                     THEN [mg_db EXCEPT !.backups = Append(@, mg_db.emb)]
                     ELSE mg_db
         /\ mg_res' = [mg_res EXCEPT !.backup = StepResult(o)]
         /\ IF StepResult(o) = "True"
            THEN mg_pc' = "drop" /\ mg_pending' = mg_pending
            ELSE mg_pc' = "close" /\ mg_pending' = "False"
    /\ mg_ran' = Append(mg_ran, "backup")
    /\ UNCHANGED <<mg_dry, mg_port_ok, mg_db0, mg_ext, mg_conn, mg_ret, mg_exit,
                   mg_verify, mgRest>>

\* Step 2: drop_old_embeddings.
MigrateDrop ==
    /\ mg_pc = "drop"
    /\ \E o \in DropOutcomes(mg_dry) :
         /\ mg_log' = mg_log \o
               CASE o = "dry"          -> <<>>
                 [] o = "count_fails"  -> <<Stmt("COUNT", FALSE)>>
                 [] o = "delete_fails" -> <<Stmt("COUNT", TRUE), Stmt("DELETE", FALSE)>>
                 [] o = "ok"           -> <<Stmt("COUNT", TRUE), Stmt("DELETE", TRUE)>>
         /\ mg_db' = IF o = "ok" THEN [mg_db EXCEPT !.emb = 0] ELSE mg_db
         /\ mg_res' = [mg_res EXCEPT !.drop = StepResult(o)]
         /\ IF StepResult(o) = "True"
            THEN mg_pc' = "update" /\ mg_pending' = mg_pending
            ELSE mg_pc' = "close" /\ mg_pending' = "False"
    /\ mg_ran' = Append(mg_ran, "drop")
    /\ UNCHANGED <<mg_dry, mg_port_ok, mg_db0, mg_ext, mg_conn, mg_ret, mg_exit,
                   mg_verify, mgRest>>

\* Step 3: update_collection_metadata; then, in a dry run, return True.
MigrateUpdate ==
    /\ mg_pc = "update"
    /\ \E o \in UpdateOutcomes(mg_dry) :
         /\ mg_log' = mg_log \o
               CASE o = "dry"          -> <<>>
                 [] o = "update_fails" -> <<Stmt("UPDATE", FALSE)>>
                 [] o = "ok"           -> <<Stmt("UPDATE", TRUE)>>
         /\ mg_db' = IF o = "ok"
                     THEN [mg_db EXCEPT !.colls = [c \in DOMAIN @ |-> "new"]]
                     ELSE mg_db
         /\ mg_res' = [mg_res EXCEPT !.update = StepResult(o)]
         /\ IF StepResult(o) = "False"
            THEN mg_pc' = "close" /\ mg_pending' = "False"
            ELSE IF mg_dry
                 THEN mg_pc' = "close" /\ mg_pending' = "True"
                 ELSE mg_pc' = "verify" /\ mg_pending' = mg_pending
    /\ mg_ran' = Append(mg_ran, "update")
    /\ UNCHANGED <<mg_dry, mg_port_ok, mg_db0, mg_ext, mg_conn, mg_ret, mg_exit,
                   mg_verify, mgRest>>

\* The outcome of verify_migration as main reads it: {} on a failure,
\* else embedding_count > 0 or not.
VerifyOutcome(ok, emb) ==
    IF ~ok THEN "failed" ELSE IF emb > 0 THEN "warned" ELSE "clean"

\* A main that aborts when verification fails or finds rows.
VerifyReturnStrict(outcome) == Bool(outcome = "clean")

\* What main returns after step 4: True, whatever verification found.
VerifyReturn(outcome) == "True"

\* Step 4: verify_migration returns its results or {}; main logs them, warns
\* when embedding_count > 0, and returns.
MigrateVerify ==
    /\ mg_pc = "verify"
    /\ \E ok \in BOOLEAN :
         /\ mg_log' = mg_log \o <<Stmt("VERIFY", ok)>>
         /\ mg_verify' = VerifyOutcome(ok, mg_db.emb)
         /\ mg_pending' = VerifyReturn(VerifyOutcome(ok, mg_db.emb))
    /\ mg_pc' = "close"
    /\ mg_ran' = Append(mg_ran, "verify")
    /\ UNCHANGED <<mg_dry, mg_port_ok, mg_db, mg_db0, mg_ext, mg_res, mg_conn,
                   mg_ret, mg_exit, mgRest>>

\* finally: await conn.close().  If it raises, the outer except returns
\* False instead of the value being returned.
MigrateClose ==
    /\ mg_pc = "close"
    /\ \E ok \in BOOLEAN :
         IF ok
         THEN mg_conn' = "closed" /\ mg_ret' = mg_pending
         ELSE mg_conn' = "close_failed" /\ mg_ret' = "False"
    /\ mg_pc' = "returned"
    /\ UNCHANGED <<mg_dry, mg_port_ok, mg_db, mg_db0, mg_ext, mg_log, mg_res,
                   mg_ran, mg_pending, mg_exit, mg_verify, mgRest>>

\* sys.exit(0 if success else 1); an uncaught exception exits with 1.
MigrateExit ==
    /\ mg_pc \in {"returned", "raised"}
    /\ mg_exit' = IF mg_ret = "True" THEN 0 ELSE 1
    /\ mg_pc' = "exited"
    /\ UNCHANGED <<mg_dry, mg_port_ok, mg_db, mg_db0, mg_ext, mg_log, mg_res,
                   mg_ran, mg_conn, mg_pending, mg_ret, mg_verify, mgRest>>

MigrateNext ==
    \/ OtherClientInsert
    \/ MigratePortError
    \/ MigrateConnect
    \/ MigrateBackup
    \/ MigrateDrop
    \/ MigrateUpdate
    \/ MigrateVerify
    \/ MigrateClose
    \/ MigrateExit

IsPrefix(p, q) == Len(p) <= Len(q) /\ SubSeq(q, 1, Len(p)) = p

StepOrder == <<"backup", "drop", "update", "verify">>

\* C6: in a non-dry-run migration the steps run in the order backup, delete,
\* update metadata, verify, each only after every earlier step returned
\* True; a DELETE is issued only after a CREATE TABLE of the backup succeeded
\* earlier in the run, and an UPDATE only after a DELETE succeeded.
C6_StepsInOrderAfterSuccess ==
    ~mg_dry =>
        /\ IsPrefix(mg_ran, StepOrder)
        /\ Len(mg_ran) >= 2 => mg_res.backup = "True"
        /\ Len(mg_ran) >= 3 => mg_res.drop = "True"
        /\ Len(mg_ran) >= 4 => mg_res.update = "True"
        /\ \A i \in 1..Len(mg_log) :
             /\ mg_log[i].stmt = "DELETE" =>
                  \E j \in 1..(i - 1) : mg_log[j] = Stmt("CREATE", TRUE)
             /\ mg_log[i].stmt = "UPDATE" =>
                  \E j \in 1..(i - 1) : mg_log[j] = Stmt("DELETE", TRUE)

\* A non-dry run that went through all four steps and issued its UPDATE.
C6_Witness ==
    /\ ~mg_dry /\ mg_ran = StepOrder /\ mg_pc = "exited"
    /\ \E i \in 1..Len(mg_log) : mg_log[i] = Stmt("UPDATE", TRUE)

Writes == {"CREATE", "DELETE", "UPDATE"}

\* What a dry run leaves alone: no CREATE TABLE, DELETE or UPDATE is issued,
\* the tables hold what they held at the start (plus other clients' rows),
\* no backup table appears, and verify is not run.
DryRunFrame ==
    /\ \A i \in 1..Len(mg_log) : mg_log[i].stmt \notin Writes
    /\ mg_db.emb = mg_db0.emb + mg_ext
    /\ mg_db.backups = mg_db0.backups
    /\ mg_db.colls = mg_db0.colls
    /\ \A i \in 1..Len(mg_ran) : mg_ran[i] # "verify"

\* C7 as stated: a dry run changes nothing, skips verify, and main returns
\* True once the connection was opened.
C7_DryRunReturnsTrueOnceConnected ==
    mg_dry =>
        /\ DryRunFrame
        /\ (mg_ret # "none" /\ mg_conn # "failed")
              => mg_ret = "True"

\* C7 amended: a dry run changes nothing and skips verify; main returns True
\* once the connection was opened and closed without an error, and False
\* when closing it raises.
C7_DryRunNoChange ==
    mg_dry =>
        /\ DryRunFrame
        /\ (mg_ret # "none" /\ mg_conn = "closed")
              => mg_ret = "True"
        /\ (mg_ret # "none" /\ mg_conn = "close_failed")
              => mg_ret = "False"

\* A dry run over a database with rows, a collection and a backup table that
\* went through its three steps and returned True.
C7_Witness ==
    /\ mg_dry /\ mg_pc = "exited" /\ mg_ret = "True"
    /\ mg_ran = <<"backup", "drop", "update">>
    /\ mg_db0.emb > 0 /\ mg_db0.colls # <<>> /\ mg_db0.backups # <<>>

AllStepsTrue ==
    mg_res.backup = "True" /\ mg_res.drop = "True" /\ mg_res.update = "True"

\* C8 as stated: main returns True exactly when the connection was opened
\* and the three steps all returned True, and False otherwise; the exit
\* status is 0 for True and 1 for False; verify never changes the result.
C8_TrueIffConnectedAndStepsTrue ==
    /\ mg_pc = "returned" => mg_ret \in {"True", "False"}
    /\ mg_ret # "none" =>
         (mg_ret = "True" <=> (mg_conn \notin {"none", "failed"} /\ AllStepsTrue))
    /\ mg_pc = "exited" => (mg_exit = 0 <=> mg_ret = "True")

\* C8 amended: main returns True exactly when the connection was opened,
\* the three steps all returned True and closing the connection did not
\* raise; it returns False when the connection fails, a step returns False
\* or conn.close() raises.  The exit status is 0 for True and 1 otherwise,
\* and the outcome of verify_migration never changes the result.
C8_TrueIffStepsTrueAndClosed ==
    /\ mg_pc = "returned" => mg_ret \in {"True", "False"}
    /\ mg_ret # "none" =>
         (mg_ret = "True" <=> (mg_conn = "closed" /\ AllStepsTrue))
    /\ mg_pc = "exited" => mg_exit \in {0, 1}
    /\ mg_pc = "exited" => (mg_exit = 0 <=> mg_ret = "True")

\* A run that returned True and exited with 0 although verification failed.
C8_Witness ==
    /\ mg_pc = "exited" /\ mg_exit = 0 /\ mg_ret = "True"
    /\ mg_verify = "failed"

\* A run that returned True although verification found rows in the table.
C8_WitnessWarned ==
    /\ mg_pc = "exited" /\ mg_ret = "True" /\ mg_verify = "warned"

----------------------------------------------------------------------------
(* Channel links: src/app/services/scraping/utils.py validate_channel_link *)

MaxLink == 5       \* longest channel link explored, in symbols

\* A link is a sequence of symbols: "B" is the text https://www.youtube.com/
\* and "h" the text hannel; "@", "c" and "/" are themselves, " " is any
\* whitespace.  A link is one line: it holds no line break inside.
LinkSymbols == {"B", "@", "c", "h", "/", " "}

HandlePrefix    == <<"B", "@">>                 \* https://www.youtube.com/@
ChannelIdPrefix == <<"B", "c", "h", "/">>       \* https://www.youtube.com/channel/
CustomPrefix    == <<"B", "c", "/">>            \* https://www.youtube.com/c/

StartsWith(t, prefix) ==
    Len(t) >= Len(prefix) /\ SubSeq(t, 1, Len(prefix)) = prefix

\* A pattern prefix(.*) that also matches an empty identifier.
MatchGroupMaybeEmpty(prefix, link) ==
    IF StartsWith(link, prefix)
    THEN <<SubSeq(link, Len(prefix) + 1, Len(link))>>
    ELSE <<>>

\* re.match(prefix + "(.+)", link): <<>> for no match, else <<group(1)>>.
MatchGroup(prefix, link) ==
    IF StartsWith(link, prefix) /\ Len(link) > Len(prefix)
    THEN <<SubSeq(link, Len(prefix) + 1, Len(link))>>
    ELSE <<>>

\* The if/elif chain over the three matches: <<>> or <<channel_identifier>>.
ChannelIdentifier(link) ==
    LET handle_match     == MatchGroup(HandlePrefix, link)
        channel_id_match == MatchGroup(ChannelIdPrefix, link)
        custom_match     == MatchGroup(CustomPrefix, link)
    IN  IF handle_match # <<>> THEN handle_match
        ELSE IF channel_id_match # <<>> THEN channel_id_match
        ELSE custom_match

NoOut == [kind |-> "none", value |-> <<>>, cause |-> "none"]

ValueError(cause) == [kind |-> "ValueError", value |-> <<>>, cause |-> cause]

ValidateIdle ==
    /\ vc_link = <<>> /\ vc_pc = "idle" /\ vc_ident = <<>>
    /\ vc_lookups = <<>> /\ vc_out = NoOut

ValidateStart ==
    /\ vc_link \in SeqsUpTo(LinkSymbols, MaxLink)
    /\ vc_pc = "start" /\ vc_ident = <<>>
    /\ vc_lookups = <<>> /\ vc_out = NoOut

\* if not channel_link: raise ValueError
ValidateEmpty ==
    /\ vc_pc = "start" /\ vc_link = <<>>
    /\ vc_out' = ValueError("empty")
    /\ vc_pc' = "done"
    /\ UNCHANGED <<vc_link, vc_ident, vc_lookups, vcRest>>

\* strip, match the three formats; no match raises ValueError
ValidateMatch ==
    /\ vc_pc = "start" /\ vc_link # <<>>
    /\ LET m == ChannelIdentifier(Strip(vc_link))
       IN  IF m = <<>>
           THEN /\ vc_out' = ValueError("format") /\ vc_pc' = "done"
                /\ UNCHANGED vc_ident
           ELSE /\ vc_ident' = m[1] /\ vc_pc' = "lookup"
                /\ UNCHANGED vc_out
    /\ UNCHANGED <<vc_link, vc_lookups, vcRest>>

\* scrapetube.get_channel(channel_identifier): return the identifier, or
\* raise ValueError from the exception.
ValidateLookup ==
    /\ vc_pc = "lookup"
    /\ vc_lookups' = Append(vc_lookups, vc_ident)
    /\ \E ok \in BOOLEAN :
         vc_out' = IF ok
                   THEN [kind |-> "return", value |-> vc_ident, cause |-> "none"]
                   ELSE ValueError("lookup")
    /\ vc_pc' = "done"
    /\ UNCHANGED <<vc_link, vc_ident, vcRest>>

ValidateNext ==
    \/ ValidateEmpty
    \/ ValidateMatch
    \/ ValidateLookup

\* The three supported formats, and what it is for a text to be in one of
\* them with identifier x: the text is the format's prefix followed by x.
ChannelPrefixes == {HandlePrefix, ChannelIdPrefix, CustomPrefix}

InFormat(t, x) == x # <<>> /\ \E p \in ChannelPrefixes : t = p \o x

Suffixes(t) == {SubSeq(t, k, Len(t)) : k \in 1..(Len(t) + 1)}

\* C9: validate_channel_link raises ValueError for an empty link, for a link
\* whose stripped text is in none of the three formats, and when the channel
\* lookup raises; the lookup is attempted only for a link in one of the
\* formats (once, with the identifier), and on success the function returns
\* the identifier that follows the matched prefix.
C9_ValidateChannelLink ==
    vc_pc = "done" =>
        LET t == Strip(vc_link)
            matches == \E x \in Suffixes(t) : InFormat(t, x)
        IN  /\ vc_out.kind \in {"return", "ValueError"}
            /\ vc_link = <<>> => vc_out.kind = "ValueError"
            /\ ~matches => (vc_out.kind = "ValueError" /\ vc_lookups = <<>>)
            /\ vc_lookups # <<>> => (matches /\ Len(vc_lookups) = 1)
            /\ vc_out.cause = "lookup" => vc_out.kind = "ValueError"
            /\ vc_out.kind = "return" =>
                 /\ InFormat(t, vc_out.value)
                 /\ vc_lookups = <<vc_out.value>>
            /\ (matches /\ vc_out.cause # "lookup") => vc_out.kind = "return"

\* A link in the @ format with whitespace around it, validated.
C9_Witness ==
    /\ vc_pc = "done" /\ vc_out.kind = "return"
    /\ vc_link = <<" ", "B", "@", "c", " ">> /\ vc_out.value = <<"c">>

\* A link that is a bare prefix with no identifier: rejected without lookup.
C9_WitnessBarePrefix ==
    /\ vc_pc = "done" /\ vc_link = <<" ", "B", "@", " ">>
    /\ vc_out.kind = "ValueError" /\ vc_lookups = <<>>

----------------------------------------------------------------------------
(* Setup verification: src/scripts/verify_openai_setup.py *)

RequiredVars == {"OPENAI_API_KEY", "POSTGRES_HOST", "POSTGRES_DB",
                 "POSTGRES_USER", "POSTGRES_PASSWORD"}

RequiredPackages == {"openai", "yt_dlp", "langchain_openai", "langchain_postgres"}

\* os.getenv of a variable: unset (None), set to "", or set to a value.
VarStates == {"unset", "empty", "set"}

Checks == <<"env", "deps", "ffmpeg", "db", "openai">>

PassFail(b) == IF b THEN "pass" ELSE "fail"

\* A check that only tests the variable for None.
CheckEnvironmentVariablesNotNone(env) ==
    \A v \in RequiredVars : env[v] # "unset"

\* check_environment_variables: all_ok stays True iff every value is truthy.
CheckEnvironmentVariables(env) ==
    \A v \in RequiredVars : env[v] = "set"

\* check_dependencies: all_ok iff every required package imports.
CheckDependencies(missing) == missing = {}

VerifyIdle ==
    /\ vf_env = [v \in RequiredVars |-> "unset"] /\ vf_pc = "idle"
    /\ vf_results = [c \in {} |-> "none"] /\ vf_order = <<>>
    /\ vf_api_calls = 0 /\ vf_ret = 0 - 1

VerifyStart ==
    /\ vf_env \in [RequiredVars -> VarStates]
    /\ vf_pc = "env"
    /\ vf_results = [c \in {} |-> "none"] /\ vf_order = <<>>
    /\ vf_api_calls = 0 /\ vf_ret = 0 - 1

\* results = {"Environment Variables": check_environment_variables(), ...
VerifyEnv ==
    /\ vf_pc = "env"
    /\ vf_results' = Merge(vf_results,
                           [env |-> PassFail(CheckEnvironmentVariables(vf_env))])
    /\ vf_order' = Append(vf_order, "env")
    /\ vf_pc' = "deps"
    /\ UNCHANGED <<vf_env, vf_api_calls, vf_ret, vfRest>>

\* "Python Dependencies": check_dependencies()
VerifyDeps ==
    /\ vf_pc = "deps"
    /\ \E missing \in SUBSET RequiredPackages :
         vf_results' = Merge(vf_results,
                             [deps |-> PassFail(CheckDependencies(missing))])
    /\ vf_order' = Append(vf_order, "deps")
    /\ vf_pc' = "ffmpeg"
    /\ UNCHANGED <<vf_env, vf_api_calls, vf_ret, vfRest>>

\* "FFmpeg": check_ffmpeg()
VerifyFfmpeg ==
    /\ vf_pc = "ffmpeg"
    /\ \E found \in BOOLEAN :
         vf_results' = Merge(vf_results, [ffmpeg |-> PassFail(found)])
    /\ vf_order' = Append(vf_order, "ffmpeg")
    /\ vf_pc' = "db"
    /\ UNCHANGED <<vf_env, vf_api_calls, vf_ret, vfRest>>

\* "Database Connection": check_database(); "OpenAI API": False
VerifyDatabase ==
    /\ vf_pc = "db"
    /\ \E connected \in BOOLEAN :
         vf_results' = Merge(vf_results,
                             [db |-> PassFail(connected), openai |-> "fail"])
    /\ vf_order' = Append(vf_order, "db")
    /\ vf_pc' = "openai"
    /\ UNCHANGED <<vf_env, vf_api_calls, vf_ret, vfRest>>

\* if results["Environment Variables"]: results["OpenAI API"] =
\* check_openai_api(): the import, the embeddings call, the chat call.
VerifyOpenAI ==
    /\ vf_pc = "openai" /\ vf_results.env = "pass"
    /\ \E o \in {"import_fails", "embeddings_fails", "chat_fails", "ok"} :
         /\ vf_api_calls' = vf_api_calls +
               CASE o = "import_fails"     -> 0
                 [] o = "embeddings_fails" -> 1
                 [] OTHER                  -> 2
         /\ vf_results' = [vf_results EXCEPT !.openai = PassFail(o = "ok")]
    /\ vf_order' = Append(vf_order, "openai")
    /\ vf_pc' = "summary"
    /\ UNCHANGED <<vf_env, vf_ret, vfRest>>

\* else: the OpenAI API test is skipped
VerifySkipOpenAI ==
    /\ vf_pc = "openai" /\ vf_results.env # "pass"
    /\ vf_pc' = "summary"
    /\ UNCHANGED <<vf_env, vf_results, vf_order, vf_api_calls, vf_ret, vfRest>>

\* all_passed = all(results.values()); return 0 if all_passed else 1
VerifySummary ==
    /\ vf_pc = "summary"
    /\ vf_ret' = IF \A c \in DOMAIN vf_results : vf_results[c] = "pass"
                 THEN 0 ELSE 1
    /\ vf_pc' = "done"
    /\ UNCHANGED <<vf_env, vf_results, vf_order, vf_api_calls, vfRest>>

VerifyNext ==
    \/ VerifyEnv
    \/ VerifyDeps
    \/ VerifyFfmpeg
    \/ VerifyDatabase
    \/ VerifyOpenAI
    \/ VerifySkipOpenAI
    \/ VerifySummary

\* C10: main returns 0 iff all five checks passed and 1 otherwise; the
\* OpenAI API check comes after the other four and only when the
\* environment check passed, so a required variable that is not set always
\* gives 1 without any OpenAI call.
C10_ZeroIffAllFivePassed ==
    /\ IsPrefix(vf_order, Checks)
    /\ vf_api_calls > 0 =>
         (Len(vf_order) = 5 /\ \A v \in RequiredVars : vf_env[v] = "set")
    /\ vf_pc = "done" =>
         /\ vf_ret \in {0, 1}
         /\ vf_ret = 0 <=>
              (/\ Len(vf_order) = 5
               /\ \A k \in 1..5 : vf_results[Checks[k]] = "pass")
         /\ (\E v \in RequiredVars : vf_env[v] # "set") =>
              (vf_ret = 1 /\ vf_api_calls = 0 /\ Len(vf_order) = 4)

\* A run with every variable set whose five checks passed: main returned 0
\* after both OpenAI calls.
C10_Witness ==
    /\ vf_pc = "done" /\ vf_ret = 0 /\ vf_api_calls = 2
    /\ vf_order = Checks

\* A run with one variable set to the empty string: the OpenAI check was
\* skipped and main returned 1 although the other three checks passed.
C10_WitnessSkipped ==
    /\ vf_pc = "done" /\ vf_ret = 1 /\ vf_api_calls = 0
    /\ vf_env["POSTGRES_HOST"] = "empty"
    /\ vf_results.deps = "pass" /\ vf_results.ffmpeg = "pass"
    /\ vf_results.db = "pass"

----------------------------------------------------------------------------
(* Specifications: one per subsystem, the others idle *)

RerankInit ==
    /\ RerankStart /\ FormatIdle /\ TranscriptIdle /\ MigrateIdle
    /\ ValidateIdle /\ VerifyIdle /\ ParseIdle
SpecRerank == RerankInit /\ [][RerankNext]_vars

FormatInit ==
    /\ RerankIdle /\ FormatStart /\ TranscriptIdle /\ MigrateIdle
    /\ ValidateIdle /\ VerifyIdle /\ ParseIdle
SpecFormat == FormatInit /\ [][FormatNext]_vars

TranscriptInit ==
    /\ RerankIdle /\ FormatIdle /\ TranscriptStart /\ MigrateIdle
    /\ ValidateIdle /\ VerifyIdle /\ ParseIdle
SpecTranscript == TranscriptInit /\ [][TranscriptNext]_vars

MigrateInit ==
    /\ RerankIdle /\ FormatIdle /\ TranscriptIdle /\ MigrateStart
    /\ ValidateIdle /\ VerifyIdle /\ ParseIdle
SpecMigrate == MigrateInit /\ [][MigrateNext]_vars

ValidateInit ==
    /\ RerankIdle /\ FormatIdle /\ TranscriptIdle /\ MigrateIdle
    /\ ValidateStart /\ VerifyIdle /\ ParseIdle
SpecValidate == ValidateInit /\ [][ValidateNext]_vars

VerifyInit ==
    /\ RerankIdle /\ FormatIdle /\ TranscriptIdle /\ MigrateIdle
    /\ ValidateIdle /\ VerifyStart /\ ParseIdle
SpecVerify == VerifyInit /\ [][VerifyNext]_vars

ParseInit ==
    /\ RerankIdle /\ FormatIdle /\ TranscriptIdle /\ MigrateIdle
    /\ ValidateIdle /\ VerifyIdle /\ ParseStart
SpecParse == ParseInit /\ [][ParseNext]_vars

Init == RerankInit \/ FormatInit \/ TranscriptInit \/ MigrateInit
        \/ ValidateInit \/ VerifyInit \/ ParseInit
Next == RerankNext \/ FormatNext \/ TranscriptNext \/ MigrateNext
        \/ ValidateNext \/ VerifyNext \/ ParseNext
Spec == Init /\ [][Next]_vars

====
